---- MODULE Spec2Model ----
(***************************************************************************)
(* A model of the sidekick application state store                        *)
(* (src/extension/app/store: SiteStore and AppStore).                      *)
(*                                                                         *)
(* JavaScript values are modelled as follows.                              *)
(*   - an absent string is Undef, the value null is Null;                  *)
(*   - an optional structured value is a sequence of length 0 or 1         *)
(*     (None, Some(x));                                                    *)
(*   - a host name is a sequence of labels, a path a sequence of segments, *)
(*     a segment a sequence of tokens (a word of \w characters or a single *)
(*     punctuation character), so that endsWith, split, indexOf and the    *)
(*     regular expressions of the classifiers are computed, not assumed;   *)
(*   - a JSON value (a status payload, the status itself) is a record      *)
(*     with a kind: "null", "prim" (a number) or "obj".                    *)
(***************************************************************************)
EXTENDS Integers, Sequences, FiniteSets, TLC

VARIABLES
    sidekick,     \* AppStore.sidekick: TRUE once the element is set
    location,     \* AppStore.location: None or Some(URL)
    siteStore,    \* the fields of AppStore.siteStore
    initialized,  \* AppStore.initialized
    status,       \* AppStore.status
    requests,     \* the status requests issued by fetch(), in order of issue
    events,       \* the events dispatched on the sidekick, in order
    samples,      \* the telemetry samples forwarded by sampleRUM, in order
    loader,       \* the position of the loadContext call of this activation,
                  \* its cfg argument and the status request it issued (0: none)
    lastCall,     \* how the last call of fetchStatus or fireEvent by the user
                  \* interface ended for its caller
    settled,      \* the request whose promise chain ended last (0: none yet)
    initCall,     \* the initStore call made on the SiteStore by a caller other
                  \* than loadContext: its position, its cfg argument,
                  \* whether the override fetch of a call on this store has
                  \* succeeded, and the store whose serialization the cfg
                  \* argument was parsed from (None: a raw configuration)
    acted,        \* the plugins whose button action has run
    verdict       \* what the predicates of the Location Classifier returned
                  \* when the user interface last evaluated them (None: never)

vars == <<sidekick, location, siteStore, initialized, status, requests,
          events, samples, loader, lastCall, settled, initCall, acted, verdict>>

(***************************************************************************)
(* Bounds of the model.                                                    *)
(***************************************************************************)
MaxRequests == 2

MaxEvents == 2

(***************************************************************************)
(* Values.                                                                 *)
(***************************************************************************)
Undef == "undefined"
Null == "null"
None == <<>>
Some(x) == <<x>>

\* JavaScript truthiness of a string-valued field
Truthy(s) == s \notin {Undef, Null, ""}

Last(s) == s[Len(s)]

EndsWith(s, suffix) ==
    /\ Len(s) >= Len(suffix)
    /\ SubSeq(s, Len(s) - Len(suffix) + 1, Len(s)) = suffix

\* Array.prototype.join / string concatenation of the parts of a name
RECURSIVE Join(_, _)
Join(parts, sep) ==
    IF parts = <<>> THEN ""
    ELSE IF Len(parts) = 1 THEN parts[1]
    ELSE parts[1] \o sep \o Join(Tail(parts), sep)

\* String.prototype.indexOf on a sequence of tokens: 0-based, -1 if absent
RECURSIVE IndexFrom(_, _, _)
IndexFrom(s, tok, i) ==
    IF i > Len(s) THEN -1
    ELSE IF s[i] = tok THEN i - 1
    ELSE IndexFrom(s, tok, i + 1)

IndexOf(s, tok) == IndexFrom(s, tok, 1)

\* String.prototype.lastIndexOf on a sequence of tokens: 0-based, -1 if absent
RECURSIVE LastIndexFrom(_, _, _)
LastIndexFrom(s, tok, i) ==
    IF i < 1 THEN -1
    ELSE IF s[i] = tok THEN i - 1
    ELSE LastIndexFrom(s, tok, i - 1)

LastIndexOf(s, tok) == LastIndexFrom(s, tok, Len(s))

(***************************************************************************)
(* URLs: the fields of a URL object the store reads.                       *)
(*   labels    the labels of the host                                      *)
(*   segs      the segments of the pathname                                *)
(*   id        the id query parameter: None, or Some(path) with path the   *)
(*             sequence of its "/"-separated parts                         *)
(*   sourcedoc whether the search string contains "sourcedoc="             *)
(***************************************************************************)
Url(labels, segs, id, sourcedoc) ==
    [labels |-> labels, segs |-> segs, id |-> id, sourcedoc |-> sourcedoc]

Host(url) == Join(url.labels, ".")

SegText(seg) == Join(seg, "")

RECURSIVE PathText(_)
PathText(segs) ==
    IF segs = <<>> THEN ""
    ELSE "/" \o SegText(segs[1]) \o PathText(Tail(segs))

Pathname(url) == IF url.segs = <<>> THEN "/" ELSE PathText(url.segs)

Search(url) ==
    IF url.id # None
    THEN "?id=" \o PathText(url.id[1])
    ELSE IF url.sourcedoc THEN "?sourcedoc=x" ELSE ""

Href(url) == "https://" \o Host(url) \o Pathname(url) \o Search(url)

(***************************************************************************)
(* Location Classifier (AppStore.isSharePoint ... isEditor).               *)
(* site is the SiteStore, url the location.                                *)
(***************************************************************************)
Punct == {".", "-", ":", "~", "/"}

IsWord(tok) == tok \notin Punct

\* new URL(mountpoint).host === host
MountpointHostIs(site, host) ==
    /\ site.mountpoint # None
    /\ Host(site.mountpoint[1]) = host

\* /\w+\.sharepoint.com$/.test(host)
MatchesSharePointHost(url) ==
    /\ Len(url.labels) >= 3
    /\ EndsWith(url.labels, <<"sharepoint", "com">>)

\* host.endsWith('.google.com')
EndsWithGoogleCom(url) ==
    /\ Len(url.labels) >= 3
    /\ EndsWith(url.labels, <<"google", "com">>)

isSharePoint(site, url) ==
    \/ MatchesSharePointHost(url)
    \/ (~EndsWithGoogleCom(url) /\ MountpointHostIs(site, Host(url)))

isSharePointDM(site, url) ==
    /\ isSharePoint(site, url)
    /\ \/ EndsWith(url.segs, << <<"Forms">>, <<"AllItems", ".", "aspx">> >>)
       \/ EndsWith(url.segs, << <<"onedrive", ".", "aspx">> >>)

\* docPath.split('/').pop()
Basename(docPath) == IF docPath = <<>> THEN <<>> ELSE Last(docPath)

isSharePointFolder(site, url) ==
    IF isSharePointDM(site, url)
    THEN /\ url.id # None   \* docPath?.  yields undefined, which is not in [-1, 0]
         /\ IndexOf(Basename(url.id[1]), ".") \in {-1, 0}
    ELSE FALSE

\* pathname.match(/\/_layouts\/15\/[\w]+.aspx$/)
MatchesLayoutsAspx(url) ==
    /\ Len(url.segs) >= 3
    /\ url.segs[Len(url.segs) - 2] = <<"_layouts">>
    /\ url.segs[Len(url.segs) - 1] = <<"15">>
    /\ LET f == Last(url.segs)
       IN /\ Len(f) = 3
          /\ IsWord(f[1])
          /\ f[3] = "aspx"

isSharePointEditor(site, url) ==
    /\ isSharePoint(site, url)
    /\ MatchesLayoutsAspx(url)
    /\ url.sourcedoc

isSharePointViewer(site, url) ==
    IF isSharePointDM(site, url)
    THEN /\ url.id # None   \* undefined > 0 is false
         /\ LastIndexOf(Basename(url.id[1]), ".") > 0
    ELSE FALSE

isAdmin(site, url) ==
    \/ isSharePointFolder(site, url)
    \/ Host(url) = "drive.google.com"

isEditor(site, url) ==
    IF isSharePointEditor(site, url) \/ isSharePointViewer(site, url) THEN TRUE
    ELSE IF Host(url) = "docs.google.com" THEN TRUE
    ELSE IF MountpointHostIs(site, Host(url)) /\ ~isAdmin(site, url) THEN TRUE
    ELSE FALSE

\* matchProjectHost(baseHost, host) of utils/browser.js: exact equality of
\* the host names (section 4.3)
matchProjectHost(baseHost, host) == Truthy(baseHost) /\ baseHost = host

\* ['', siteStore.devUrl.host].includes(location.host)
isDev(site, url) == Host(url) \in {"", site.devUrl}

isInner(site, url) ==
    \/ matchProjectHost(site.innerHost, Host(url))
    \/ matchProjectHost(site.stdInnerHost, Host(url))

isOuter(site, url) ==
    \/ matchProjectHost(site.outerHost, Host(url))
    \/ matchProjectHost(site.stdOuterHost, Host(url))

isProd(site, url) == site.host = Host(url)

\* a classifier that does not look at owner and repo
isProjectHost(site, url) ==
    isDev(site, url) \/ isInner(site, url) \/ isOuter(site, url) \/ isProd(site, url)

\* owner && repo && (isDev() || isInner() || isOuter() || isProd()), as a
\* condition sees it (its truthiness)
isProject(site, url) ==
    /\ Truthy(site.owner)
    /\ Truthy(site.repo)
    /\ (isDev(site, url) \/ isInner(site, url) \/ isOuter(site, url)
                         \/ isProd(site, url))

(***************************************************************************)
(* The locations the browser can be at (what getLocation() can return).    *)
(***************************************************************************)
SharePointLabels == <<"adobe", "sharepoint", "com">>

LocPreview == Url(<<"main--repo--owner", "hlx", "page">>, <<>>, None, FALSE)

LocEditor ==
    Url(SharePointLabels,
        << <<"sites">>, <<"_layouts">>, <<"15">>, <<"Doc", ".", "aspx">> >>,
        None, TRUE)

LocFolder ==
    Url(SharePointLabels,
        << <<"sites">>, <<"Forms">>, <<"AllItems", ".", "aspx">> >>,
        Some(<< <<"sites">>, <<"sub">> >>), FALSE)

Locations == {LocPreview, LocEditor}

(***************************************************************************)
(* Raw configurations (the cfg argument of initStore, the remote override  *)
(* document).  String fields are Undef when absent; host and devOrigin are *)
(* URL-or-host strings [scheme, name]: the leading part of the string and  *)
(* the rest.  The leading part is "http://" or "https://" for an absolute  *)
(* URL, "" for a string that does not start with http (a bare host name)   *)
(* and "http" for a string that starts with http without being a URL       *)
(* (httpbin.org).  The other fields are None when absent.  An absent cfg   *)
(* argument is the empty configuration (cfg || ... || {}, line 143).       *)
(***************************************************************************)
NoUrlString == [scheme |-> "", name |-> Undef]

\* s.startsWith('http')
StartsWithHttp(s) == s.scheme \in {"http://", "https://", "http"}

\* whether new URL(s) returns; it throws a TypeError for a string that is
\* not an absolute URL
IsUrl(s) == s.scheme \in {"http://", "https://"}

UrlStringFields == {"host", "devOrigin"}

OptionFields == {"mountpoint", "devMode", "extended", "specialViews", "hlx5"}

Absent(field, value) ==
    IF field \in UrlStringFields THEN value = NoUrlString
    ELSE IF field \in OptionFields THEN value = None
    ELSE value = Undef

EmptyConfig ==
    [owner |-> Undef, repo |-> Undef, ref |-> Undef, mountpoint |-> None,
     devMode |-> None, adminVersion |-> Undef, extended |-> None,
     devOrigin |-> NoUrlString, previewHost |-> Undef, liveHost |-> Undef,
     outerHost |-> Undef, host |-> NoUrlString, project |-> Undef,
     specialViews |-> None, hlx5 |-> None]

\* { ...config, ...remote }: the fields the remote document supplies win
Spread(config, remote) ==
    [f \in DOMAIN config |->
        IF Absent(f, remote[f]) THEN config[f] ELSE remote[f]]

\* the object literal of initStore, lines 165-175
MergeConfig(config, remote, owner, repo, ref, devMode, adminVersion, now) ==
    [Spread(config, remote) EXCEPT
        !.owner = owner,
        !.repo = repo,
        !.ref = ref,
        !.devMode = devMode,
        !.adminVersion = adminVersion,
        !.extended = Some(now)]

\* Date.now()
Now == 1

\* ref = 'main' in the destructuring: the default applies to undefined only
DefaultRef(ref) == IF ref = Undef THEN "main" ELSE ref

\* if (!devOrigin) devOrigin = 'http://localhost:3000'
DefaultDevOrigin(devOrigin) ==
    IF devOrigin = NoUrlString \/ (devOrigin.scheme = "" /\ devOrigin.name = "")
    THEN [scheme |-> "http://", name |-> "localhost:3000"]
    ELSE devOrigin

\* owner && repo && !_extended
WantsOverride(cfg) ==
    /\ Truthy(cfg.owner)
    /\ Truthy(cfg.repo)
    /\ cfg.extended = None

\* host && host.startsWith('http') ? new URL(host).host : host
PublicHost(host) ==
    IF host = NoUrlString THEN Undef
    ELSE IF host.scheme \in {"http://", "https://"} THEN host.name
    ELSE host.scheme \o host.name

\* the default view of lines 203-209
JsonView == [path |-> "**.json"]

\* whether initStore throws between the override fetch and its first
\* assignment: new URL(host) of line 195 or new URL(devOrigin) of line 200.
\* host is read from the configuration in force (config), devOrigin from
\* the caller's (cfg, line 153).
InitStoreThrows(cfg, config) ==
    \/ /\ config.host # NoUrlString
       /\ StartsWithHttp(config.host)
       /\ ~IsUrl(config.host)
    \/ ~IsUrl(DefaultDevOrigin(cfg.devOrigin))

\* the legacy outer-host alias taken before liveHost
OuterHostLegacyFirst(liveHost, legacyLiveHost, stdOuterHost) ==
    IF Truthy(legacyLiveHost) THEN legacyLiveHost
    ELSE IF Truthy(liveHost) THEN liveHost
    ELSE stdOuterHost

\* previewHost || stdInnerHost, line 227
InnerHost(previewHost, stdInnerHost) ==
    IF Truthy(previewHost) THEN previewHost ELSE stdInnerHost

\* liveHost || legacyLiveHost || stdOuterHost, line 228
OuterHost(liveHost, legacyLiveHost, stdOuterHost) ==
    IF Truthy(liveHost) THEN liveHost
    ELSE IF Truthy(legacyLiveHost) THEN legacyLiveHost
    ELSE stdOuterHost

(***************************************************************************)
(* SiteStore.initStore from line 183 on: the fields assigned from the      *)
(* configuration in force (config) and from the values destructured from   *)
(* the caller's configuration before the override fetch (cfg).             *)
(* scriptUrl, scriptRoot and lang are not modelled: no operation of the    *)
(* store reads them.                                                       *)
(***************************************************************************)
AssignFields(cfg, config) ==
    LET owner == cfg.owner
        repo == cfg.repo
        ref == DefaultRef(cfg.ref)
        devOrigin == DefaultDevOrigin(cfg.devOrigin)
        hostPrefix ==
            IF Truthy(owner) /\ Truthy(repo)
            THEN ref \o "--" \o repo \o "--" \o owner
            ELSE Null
        domain == IF config.hlx5 = Some(TRUE) THEN "aem" ELSE "hlx"
        stdInnerHost ==
            IF hostPrefix # Null THEN hostPrefix \o "." \o domain \o ".page" ELSE Null
        stdOuterHost ==
            IF hostPrefix # Null THEN hostPrefix \o "." \o domain \o ".live" ELSE Null
    IN [owner |-> owner,
        repo |-> repo,
        ref |-> ref,
        mountpoint |-> cfg.mountpoint,
        devMode |-> cfg.devMode,
        adminVersion |-> cfg.adminVersion,
        extended |-> cfg.extended,
        previewHost |-> config.previewHost,
        liveHost |-> config.liveHost,
        specialViews |-> config.specialViews,
        hlx5 |-> config.hlx5,
        views |-> (IF config.specialViews = None THEN <<>> ELSE config.specialViews[1])
                  \o <<JsonView>>,
        innerHost |-> InnerHost(config.previewHost, stdInnerHost),
        outerHost |-> OuterHost(config.liveHost, config.outerHost, stdOuterHost),
        stdInnerHost |-> stdInnerHost,
        stdOuterHost |-> stdOuterHost,
        host |-> PublicHost(config.host),
        project |-> IF config.project = Undef THEN "" ELSE config.project,
        devUrl |-> devOrigin.name,
        byocdn |-> Undef,
        devOrigin |-> Undef]

\* the fields of a SiteStore on which initStore has not run
NewSiteStore ==
    [owner |-> Undef, repo |-> Undef, ref |-> Undef, mountpoint |-> None,
     devMode |-> None, adminVersion |-> Undef, extended |-> None,
     previewHost |-> Undef, liveHost |-> Undef, specialViews |-> None,
     hlx5 |-> None, views |-> <<>>, innerHost |-> Undef, outerHost |-> Undef,
     stdInnerHost |-> Undef, stdOuterHost |-> Undef, host |-> Undef,
     project |-> Undef, devUrl |-> Undef, byocdn |-> Undef, devOrigin |-> Undef]

(***************************************************************************)
(* JSON values: the status and the payloads of the status endpoint.        *)
(***************************************************************************)
Obj(webPath) ==
    [kind |-> "obj", webPath |-> webPath, apiUrl |-> None, error |-> Undef,
     status |-> None, num |-> 0]

JsNull == [Obj(Undef) EXCEPT !.kind = "null"]

Prim(n) == [Obj(Undef) EXCEPT !.kind = "prim", !.num = n]

\* an argument that was not passed
NotPassed == [Obj(Undef) EXCEPT !.kind = "undefined"]

\* the truthiness of a value, as  data || ...  sees it
JsTruthy(v) == v.kind = "obj" \/ (v.kind = "prim" /\ v.num # 0)

\* status = {}  (line 322)
EmptyStatus == Obj(Undef)

\* what a parseable body of the status endpoint can hold
Payloads == {Obj("/"), Obj("/b"), JsNull}

(***************************************************************************)
(* Responses of the status endpoint, as fetch() delivers them:             *)
(* a rejected request, or a response with a status code and a body that    *)
(* either parses (Some(json)) or does not (None).                          *)
(***************************************************************************)
Ok(code) == code >= 200 /\ code <= 299

Codes == {200, 201, 401, 404, 500}

Responses ==
    {[kind |-> "rejected", code |-> 0, body |-> None]}
    \cup {[kind |-> "http", code |-> c, body |-> None] : c \in Codes}
    \cup {[kind |-> "http", code |-> 200, body |-> Some(p)] : p \in Payloads}

\* the message of the TypeError a rejected fetch() carries
FetchFailedMessage == "Failed to fetch"

\* the message of the SyntaxError a rejected resp.json() carries
JsonSyntaxMessage == "Unexpected token in JSON"

(***************************************************************************)
(* getAdminUrl(siteStore, api, path) of utils/helix-admin.js and the       *)
(* computation of the status endpoint URL in fetchStatus, lines 624-633.   *)
(***************************************************************************)
getAdminUrl(site, api, path) ==
    [api |-> api, owner |-> site.owner, repo |-> site.repo, ref |-> site.ref,
     path |-> path, editUrl |-> Undef]

ApiUrl(site, url) ==
    LET isDM == isEditor(site, url) \/ isAdmin(site, url)
        apiUrl == getAdminUrl(site, "status", IF isDM THEN "" ELSE Pathname(url))
    IN [apiUrl EXCEPT !.editUrl = IF isDM THEN Href(url) ELSE "auto"]

\* a cache that ignores refreshLocation
NeedsApiUrlIfAbsent(st, refreshLocation) == st.apiUrl = None

\* if (!this.status.apiUrl || refreshLocation)
NeedsApiUrl(st, refreshLocation) == st.apiUrl = None \/ refreshLocation

(***************************************************************************)
(* The first .then of fetchStatus, lines 639-662: the error key thrown     *)
(* for a response that is not ok and not 401.                              *)
(***************************************************************************)
\* the keys of case 404 taken the wrong way round
ErrorKeySwapped(code, editor) ==
    IF code = 404
    THEN (IF editor THEN "error_status_404_content" ELSE "error_status_404_document")
    ELSE "error_status_" \o ToString(code)

ErrorKey(code, editor) ==
    IF code = 404
    THEN (IF editor THEN "error_status_404_document" ELSE "error_status_404_content")
    ELSE "error_status_" \o ToString(code)

\* a 401 response handled as the other error codes are
UnauthorizedAsError == [Obj(Undef) EXCEPT !.error = "error_status_401"]

\* the synthetic response of case 401: json() yields { status: 401 }
Unauthorized == [Obj(Undef) EXCEPT !.status = Some(401)]

\* the second .then, lines 663-669: resp.json() is returned without await,
\* so its rejection leaves the try block uncaught
ParseFailureMessage == JsonSyntaxMessage

\* a response that is discarded
KeepStatus(st, json) == st

\* a payload that is merged into the status, keeping its error key
MergeJson(st, json) == [json EXCEPT !.error = st.error]

\* the third .then, lines 670-673: this.status = json
ApplyJson(st, json) == json

\* the .catch, lines 675-676: this.status.error = message.  In a module
\* (strict mode) the assignment throws when status is null or a primitive.
CanSetError(st) == st.kind = "obj"

SetError(st, message) == [st EXCEPT !.error = message]

(***************************************************************************)
(* AppStore.fireEvent, lines 557-607.  All of it runs in a try block.      *)
(***************************************************************************)
EventName(prefix, id) == [prefix |-> prefix, id |-> id]

NameText(name) == name.prefix \o name.id

userEvents ==
    {"shown", "hidden", "updated", "previewed", "published", "unpublished",
     "deleted", "envswitched", "loggedin", "loggedout", "helpnext",
     "helpdismissed", "helpacknowlegded", "helpoptedout"}

\* data = data || { config: JSON.parse(siteStore.toJSON()), ... }:
\* toJSON() returns an object, so JSON.parse throws a SyntaxError
SnapshotThrows == TRUE

\* whether fireEvent reaches sidekick.dispatchEvent and it succeeds
Dispatches(data, hasSidekick) ==
    /\ JsTruthy(data) \/ ~SnapshotThrows
    /\ hasSidekick

\* the events fireEvent(name, data) dispatches; req is the status request
\* the call belongs to (0 for none)
Dispatched(name, data, req, hasSidekick) ==
    IF Dispatches(data, hasSidekick)
    THEN <<[name |-> NameText(name), data |-> data, req |-> req]>>
    ELSE <<>>

\* name.startsWith('custom:') || userEvents.includes(name)
IsUserEvent(name) == name.prefix = "custom:" \/ NameText(name) \in userEvents

\* data?.sourceUrl and data?.targetUrl
SourceUrl(data) == IF "sourceUrl" \in DOMAIN data THEN data.sourceUrl ELSE Undef

TargetUrl(data) == IF "targetUrl" \in DOMAIN data THEN data.targetUrl ELSE Undef

\* whether building the sample of lines 598-601 throws a TypeError:
\* this.location.href with location undefined, this.status.webPath with
\* status null
SampleThrows(data, st, loc) ==
    \/ (~Truthy(SourceUrl(data)) /\ loc = None)
    \/ (~Truthy(TargetUrl(data)) /\ st.kind = "null")

\* the samples fireEvent(name, data) forwards, for st the status and
\* loc the location at the time of the call
Sampled(name, data, hasSidekick, st, loc) ==
    IF /\ Dispatches(data, hasSidekick)
       /\ IsUserEvent(name)
       /\ ~SampleThrows(data, st, loc)
    THEN <<[tag |-> "sidekick:" \o NameText(name),
            source |-> IF Truthy(SourceUrl(data)) THEN SourceUrl(data)
                       ELSE Href(loc[1]),
            target |-> IF Truthy(TargetUrl(data)) THEN TargetUrl(data)
                       ELSE st.webPath]>>
    ELSE <<>>

\* whether something throws inside the try block of fireEvent
FireEventFails(name, data, hasSidekick, st, loc) ==
    \/ ~Dispatches(data, hasSidekick)
    \/ (IsUserEvent(name) /\ SampleThrows(data, st, loc))

\* a fireEvent without its catch: what is thrown inside reaches the caller
FireEventRethrows(failed) == IF failed THEN "threw" ELSE "returned"

\* catch (e) { console.warn(...) }, lines 603-606: whether or not something
\* was thrown inside the try block, fireEvent returns to its caller
FireEventEnds(failed) == "returned"

(***************************************************************************)
(* SiteStore.toJSON, lines 240-256.                                        *)
(***************************************************************************)
toJSON(site) ==
    [owner |-> site.owner, repo |-> site.repo, ref |-> site.ref,
     mountpoint |-> site.mountpoint, project |-> site.project,
     previewHost |-> site.previewHost, liveHost |-> site.liveHost,
     host |-> site.host, byocdn |-> site.byocdn, devMode |-> site.devMode,
     devOrigin |-> site.devOrigin, specialViews |-> site.specialViews,
     adminVersion |-> site.adminVersion]

(***************************************************************************)
(* The configurations and override documents of the model.                 *)
(***************************************************************************)
ContentSource == Url(SharePointLabels, << <<"sites">>, <<"docs">> >>, None, FALSE)

CfgProject == [EmptyConfig EXCEPT !.owner = "owner", !.repo = "repo"]

CfgMounted == [CfgProject EXCEPT !.mountpoint = Some(ContentSource)]

CfgNoRef == [CfgProject EXCEPT !.ref = ""]

Configs == {EmptyConfig, CfgProject, CfgNoRef}

\* an override document that names another owner
RemoteOwner == [EmptyConfig EXCEPT !.owner = "other"]

RemoteConfigs == {RemoteOwner}

\* the outcomes of the override fetch of initStore
OverrideOutcomes ==
    {[kind |-> k, remote |-> EmptyConfig] : k \in {"non200", "rejected", "unparseable"}}
    \cup {[kind |-> "ok", remote |-> r] : r \in RemoteConfigs}

(***************************************************************************)
(* State.                                                                  *)
(***************************************************************************)
\* a status request: the URL fetched, the position of its promise chain and
\* the response; and, for the record, the call that issued it
\* (refreshLocation, whether it computed the URL)
\* and how its chain ended (outcome, the error key recorded)
NewRequest(apiUrl, refreshLocation, computed) ==
    [url |-> apiUrl, pc |-> "sent", kind |-> "none", code |-> 0, body |-> None,
     message |-> Undef, refreshLocation |-> refreshLocation,
     computed |-> computed,
     outcome |-> "pending", recorded |-> Undef]

Init ==
    /\ sidekick = FALSE
    /\ location = None
    /\ siteStore = NewSiteStore
    /\ initialized = FALSE
    /\ status = EmptyStatus
    /\ requests = <<>>
    /\ events = <<>>
    /\ samples = <<>>
    /\ loader = [pc |-> "new", cfg |-> EmptyConfig, req |-> 0]
    /\ lastCall = "none"
    /\ settled = 0
    /\ initCall = [pc |-> "none", cfg |-> EmptyConfig, merged |-> FALSE,
                   origin |-> None]
    /\ acted = {}
    /\ verdict = None

InFlight == {i \in 1..Len(requests) : requests[i].pc # "done"}

\* a fetch that is dropped while a status request is in flight
IssueUnlessInFlight(issued, request) ==
    IF \E i \in 1..Len(issued) : issued[i].pc # "done"
    THEN issued
    ELSE Append(issued, request)

\* fetch(this.status.apiUrl, ...), line 636: every call issues a request
IssueRequest(issued, request) == Append(issued, request)

(***************************************************************************)
(* AppStore.fetchStatus up to its return, lines 615-636 and 695.           *)
(* cur is what getLocation() returns.                                      *)
(***************************************************************************)
\* a guard that forgets ref
MissingOwnerOrRepo(site) == ~Truthy(site.owner) \/ ~Truthy(site.repo)

\* if (!owner || !repo || !ref) return this
MissingProject(site) ==
    ~Truthy(site.owner) \/ ~Truthy(site.repo) \/ ~Truthy(site.ref)

\* the location fetchStatus continues with, lines 616-618
RefreshedLocation(refreshLocation, cur, loc) ==
    IF refreshLocation THEN Some(cur) ELSE loc

\* whether lines 623-634 throw a TypeError: status is null, or the URL is
\* to be stored on a status that is not an object, or location is undefined
FetchStatusThrows(st, loc, refreshLocation) ==
    \/ st.kind = "null"
    \/ /\ NeedsApiUrl(st, refreshLocation)
       /\ (loc = None \/ st.kind # "obj")

fetchStatus(refreshLocation, cur) ==
    LET loc == RefreshedLocation(refreshLocation, cur, location)
    IN /\ location' = loc
       /\ IF MissingProject(siteStore)
          THEN /\ UNCHANGED <<status, requests>>
               /\ lastCall' = "returned"
          ELSE IF FetchStatusThrows(status, loc, refreshLocation)
          THEN /\ UNCHANGED <<status, requests>>
               /\ lastCall' = "threw"
          ELSE LET needs == NeedsApiUrl(status, refreshLocation)
                   st == IF needs
                         THEN [status EXCEPT !.apiUrl = Some(ApiUrl(siteStore, loc[1]))]
                         ELSE status
               IN /\ Len(requests) < MaxRequests
                  /\ status' = st
                  /\ requests' = IssueRequest(requests,
                         NewRequest(st.apiUrl[1], refreshLocation, needs))
                  /\ lastCall' = "returned"

\* a fetchStatus that takes the ref off the store it reads it from
FetchStatusTakesRef(refreshLocation, cur) ==
    /\ fetchStatus(refreshLocation, cur)
    /\ siteStore' = [siteStore EXCEPT !.ref = Undef]
    /\ UNCHANGED <<sidekick, initialized, events, samples, loader, settled,
                   initCall, acted, verdict>>

\* a call of fetchStatus by the user interface
FetchStatus(refreshLocation, cur) ==
    /\ fetchStatus(refreshLocation, cur)
    /\ UNCHANGED <<sidekick, siteStore, initialized, events, samples, loader, settled,
                   initCall, acted, verdict>>

(***************************************************************************)
(* The promise chain of a status request, lines 636-694.                   *)
(* Respond is the arrival of the response.  A rejected request, a response *)
(* that is not ok and the synthetic 401 response run the chain to its end  *)
(* in consecutive microtasks: one step.  The body of an ok response is     *)
(* read asynchronously: the chain waits (pc "parsing") and Parsed is its   *)
(* end.                                                                    *)
(***************************************************************************)
statusfetched == EventName("", "statusfetched")

\* the third and fourth .then: status = json, then fireEvent; request is the
\* record of request i as it ends
SettleParsed(i, request, json) ==
    LET fired == Dispatched(statusfetched, json, i, sidekick)
    IN /\ status' = ApplyJson(status, json)
       /\ events' = events \o fired
       /\ samples' = samples \o Sampled(statusfetched, json, sidekick, status', location)
       /\ requests' = [requests EXCEPT
                          ![i] = [request EXCEPT
                                     !.pc = "done",
                                     !.outcome = IF fired # <<>> THEN "event"
                                                 ELSE "silent"]]
       /\ settled' = i

\* the .catch handler, called with the given message
SettleCaught(i, request, message) ==
    /\ IF CanSetError(status)
       THEN /\ status' = SetError(status, message)
            /\ requests' = [requests EXCEPT
                               ![i] = [request EXCEPT !.pc = "done",
                                                      !.message = message,
                                                      !.outcome = "error",
                                                      !.recorded = message]]
       ELSE \* the handler throws: an unhandled rejection
            /\ status' = status
            /\ requests' = [requests EXCEPT
                               ![i] = [request EXCEPT !.pc = "done",
                                                      !.message = message,
                                                      !.outcome = "unhandled"]]
    /\ settled' = i
    /\ UNCHANGED <<events, samples>>

Respond(i, resp) ==
    /\ i \in 1..Len(requests)
    /\ requests[i].pc = "sent"
    /\ location # None
    /\ LET request == [requests[i] EXCEPT !.kind = resp.kind, !.code = resp.code]
       IN IF resp.kind = "rejected"
          THEN SettleCaught(i, request, FetchFailedMessage)
          ELSE IF Ok(resp.code)
          THEN /\ requests' = [requests EXCEPT
                                  ![i] = [request EXCEPT !.pc = "parsing",
                                                         !.body = resp.body]]
               /\ UNCHANGED <<status, events, samples, settled>>
          ELSE IF resp.code = 401
          THEN SettleParsed(i, [request EXCEPT !.body = Some(Unauthorized)], Unauthorized)
          ELSE SettleCaught(i, request,
                            ErrorKey(resp.code, isEditor(siteStore, location[1])))
    /\ UNCHANGED <<sidekick, location, siteStore, initialized, loader, lastCall,
                   initCall, acted, verdict>>

\* resp.json() has settled: the second .then and the rest of the chain
Parsed(i) ==
    /\ i \in 1..Len(requests)
    /\ requests[i].pc = "parsing"
    /\ IF requests[i].body = None
       THEN SettleCaught(i, requests[i], ParseFailureMessage)
       ELSE SettleParsed(i, requests[i], requests[i].body[1])
    /\ UNCHANGED <<sidekick, location, siteStore, initialized, loader, lastCall,
                   initCall, acted, verdict>>

(***************************************************************************)
(* AppStore.loadContext, lines 348-366, with SiteStore.initStore.          *)
(***************************************************************************)
\* initStore from line 183 to its end, with config the configuration in
\* force: it throws before its first assignment, or assigns the fields and
\* sets initialized
FinishInitStore(cfg, config) ==
    IF InitStoreThrows(cfg, config)
    THEN UNCHANGED <<siteStore, initialized>>
    ELSE /\ siteStore' = AssignFields(cfg, config)
         /\ initialized' = TRUE

\* where loadContext stands once its initStore has ended: awaiting the
\* dictionary, or rejected with the error initStore threw
AfterInitStore(cfg, config) ==
    IF InitStoreThrows(cfg, config) THEN "rejected" ELSE "dict"

\* lines 349-352 and initStore up to its await (or, without an override
\* request, to its end)
LoadContext(cfg, cur) ==
    /\ loader.pc = "new"
    /\ sidekick' = TRUE
    /\ location' = Some(cur)
    /\ IF WantsOverride(cfg)
       THEN /\ loader' = [pc |-> "config", cfg |-> cfg, req |-> 0]
            /\ UNCHANGED <<siteStore, initialized>>
       ELSE /\ loader' = [pc |-> AfterInitStore(cfg, cfg), cfg |-> cfg, req |-> 0]
            /\ FinishInitStore(cfg, cfg)
    /\ UNCHANGED <<status, requests, events, samples, lastCall, settled, initCall,
                   acted, verdict>>

\* the configuration in force after the override fetch, lines 162-180
Overridden(cfg, outcome) ==
    IF outcome.kind = "ok"
    THEN MergeConfig(cfg, outcome.remote, cfg.owner, cfg.repo, DefaultRef(cfg.ref),
                     cfg.devMode, cfg.adminVersion, Now)
    ELSE cfg

\* the override fetch of initStore ends; initStore runs to its end
ConfigResponse(outcome) ==
    /\ loader.pc = "config"
    /\ FinishInitStore(loader.cfg, Overridden(loader.cfg, outcome))
    /\ loader' = [loader EXCEPT
                     !.pc = AfterInitStore(loader.cfg, Overridden(loader.cfg, outcome))]
    /\ UNCHANGED <<sidekick, location, status, requests, events, samples,
                   lastCall, settled, initCall, acted, verdict>>

contextloaded == EventName("", "contextloaded")

\* a loadContext that does not await initStore: contextloaded is fired and
\* the status is fetched while the override fetch is pending
ContextLoadedUnawaited ==
    /\ loader.pc \in {"config", "dict"}
    /\ LET data == [kind |-> "obj", config |-> toJSON(siteStore), location |-> location]
       IN /\ events' = events \o Dispatched(contextloaded, data, 0, sidekick)
          /\ samples' = samples \o Sampled(contextloaded, data, sidekick, status, location)
    /\ fetchStatus(FALSE, location[1])
    /\ loader' = [loader EXCEPT !.pc = "idle"]
    /\ UNCHANGED <<sidekick, siteStore, initialized, settled, initCall, acted, verdict>>

\* lines 355-365: the dictionary is loaded, contextloaded is fired and
\* fetchStatus is called without being awaited
ContextLoaded ==
    /\ loader.pc = "dict"
    /\ LET data == [kind |-> "obj", config |-> toJSON(siteStore), location |-> location]
       IN /\ events' = events \o Dispatched(contextloaded, data, 0, sidekick)
          /\ samples' = samples \o Sampled(contextloaded, data, sidekick, status, location)
    /\ fetchStatus(FALSE, location[1])
    /\ loader' = [loader EXCEPT
                     !.pc = "idle",
                     !.req = IF Len(requests') > Len(requests)
                             THEN Len(requests') ELSE 0]
    /\ UNCHANGED <<sidekick, siteStore, initialized, settled, initCall, acted, verdict>>

Next ==
    \/ \E cfg \in Configs, cur \in Locations : LoadContext(cfg, cur)
    \/ \E outcome \in OverrideOutcomes : ConfigResponse(outcome)
    \/ ContextLoaded
    \/ \E refreshLocation \in BOOLEAN, cur \in Locations :
          FetchStatus(refreshLocation, cur)
    \/ \E i \in 1..MaxRequests, resp \in Responses : Respond(i, resp)
    \/ \E i \in 1..MaxRequests : Parsed(i)

Spec == Init /\ [][Next]_vars

(***************************************************************************)
(* SiteStore.initStore on its own: a caller other than loadContext calls   *)
(* initStore on one SiteStore, again and again, with the raw               *)
(* configurations and the override documents below.                        *)
(***************************************************************************)
HostName(name) == [scheme |-> "", name |-> name]

HostUrl(name) == [scheme |-> "https://", name |-> name]

\* a host name that starts with http: httpbin.org
HttpBinOrg == [scheme |-> "http", name |-> "bin.org"]

\* the combinations of project and host fields
HostConfigs ==
    {[EmptyConfig EXCEPT !.owner = o, !.repo = r, !.previewHost = p,
                         !.liveHost = l, !.outerHost = x, !.hlx5 = h] :
        o \in {Undef, "owner"}, r \in {Undef, "repo"},
        p \in {Undef, "", "preview.example.com"},
        l \in {Undef, "live.example.com"},
        x \in {Undef, "legacy.example.com"},
        h \in {None, Some(TRUE)}}

CfgRef == [CfgProject EXCEPT !.ref = "dev", !.adminVersion = "1.0"]

CfgExtended == [CfgProject EXCEPT !.extended = Some(Now)]

CfgDevMode ==
    [CfgProject EXCEPT !.devMode = Some(TRUE),
                       !.devOrigin = HostUrl("localhost:8080")]

\* devOrigin given as a host name, not as a URL
CfgDevHost == [CfgProject EXCEPT !.devOrigin = HostName("localhost")]

CfgHost ==
    [CfgProject EXCEPT !.host = HostName("www.example.com"),
                       !.project = "Example"]

CfgHostUrl == [CfgProject EXCEPT !.host = HostUrl("www.example.com")]

CfgHttpHost == [CfgProject EXCEPT !.host = HttpBinOrg]

CfgNoOverride == [EmptyConfig EXCEPT !.owner = "owner", !.host = HttpBinOrg]

InitConfigs ==
    HostConfigs
    \cup {CfgProject, CfgNoRef, CfgMounted, CfgRef, CfgExtended, CfgDevMode,
          CfgDevHost, CfgHost, CfgHostUrl, CfgHttpHost, CfgNoOverride}

\* override documents
RemoteHosts ==
    [EmptyConfig EXCEPT !.previewHost = "preview.remote.com",
                        !.liveHost = "live.remote.com",
                        !.host = HostUrl("www.remote.com"),
                        !.project = "Remote"]

RemoteMount ==
    [EmptyConfig EXCEPT !.mountpoint = Some(ContentSource),
                        !.outerHost = "legacy.remote.com",
                        !.hlx5 = Some(TRUE),
                        !.specialViews = Some(<<[path |-> "/feed.xml"]>>)]

RemotePinned ==
    [EmptyConfig EXCEPT !.owner = "other", !.repo = "other", !.ref = "other",
                        !.devMode = Some(TRUE), !.adminVersion = "9",
                        !.extended = Some(0)]

RemoteHttpHost == [EmptyConfig EXCEPT !.host = HttpBinOrg]

InitRemotes ==
    {EmptyConfig, RemoteOwner, RemoteHosts, RemoteMount, RemotePinned, RemoteHttpHost}

InitOutcomes ==
    {[kind |-> k, remote |-> EmptyConfig] : k \in {"non200", "rejected", "unparseable"}}
    \cup {[kind |-> "ok", remote |-> r] : r \in InitRemotes}

\* how an initStore call that has ended left its caller
InitStoreEnds(cfg, config) ==
    IF InitStoreThrows(cfg, config) THEN "rejected" ELSE "returned"

\* initStore(cfg), lines 142-163: up to the await of the override fetch or,
\* without an override request, to its end.  origin is the store whose
\* serialization cfg was parsed from, None for a raw configuration.
CallInitStore(cfg, origin) ==
    /\ initCall.pc # "fetching"
    /\ IF WantsOverride(cfg)
       THEN /\ initCall' = [initCall EXCEPT !.pc = "fetching", !.cfg = cfg,
                                            !.origin = origin]
            /\ UNCHANGED <<siteStore, initialized>>
       ELSE /\ initCall' = [initCall EXCEPT !.pc = InitStoreEnds(cfg, cfg),
                                            !.cfg = cfg, !.origin = origin]
            /\ FinishInitStore(cfg, cfg)
    /\ UNCHANGED <<sidekick, location, status, requests, events, samples,
                   loader, lastCall, settled, acted, verdict>>

InitStore(cfg) == CallInitStore(cfg, None)

\* the override fetch ends and initStore runs to its end, lines 163-238
InitStoreResumes(outcome) ==
    /\ initCall.pc = "fetching"
    /\ LET config == Overridden(initCall.cfg, outcome)
       IN /\ initCall' = [initCall EXCEPT
                             !.pc = InitStoreEnds(initCall.cfg, config),
                             !.merged = @ \/ outcome.kind = "ok"]
          /\ FinishInitStore(initCall.cfg, config)
    /\ UNCHANGED <<sidekick, location, status, requests, events, samples,
                   loader, lastCall, settled, acted, verdict>>

NextInit ==
    \/ \E cfg \in InitConfigs : InitStore(cfg)
    \/ \E outcome \in InitOutcomes : InitStoreResumes(outcome)

SpecInit == Init /\ [][NextInit]_vars

(***************************************************************************)
(* The round trip of a SiteStore: the object toJSON returns is serialized, *)
(* parsed again and handed to initStore.                                   *)
(***************************************************************************)
\* the host names and origins a serialized store can hold, without scheme
HostTexts ==
    {"www.example.com", "www.remote.com", "bin.org", "localhost:8080",
     "localhost:3000", "localhost"}

\* a string of a parsed document as initStore reads it: what it starts with
\* (startsWith('http'), new URL) and the rest
ParseUrlString(s) ==
    IF s = Undef THEN NoUrlString
    ELSE IF \E n \in HostTexts : s = "https://" \o n
    THEN [scheme |-> "https://", name |-> CHOOSE n \in HostTexts : s = "https://" \o n]
    ELSE IF \E n \in HostTexts : s = "http://" \o n
    THEN [scheme |-> "http://", name |-> CHOOSE n \in HostTexts : s = "http://" \o n]
    ELSE IF \E n \in HostTexts : s = "http" \o n
    THEN [scheme |-> "http", name |-> CHOOSE n \in HostTexts : s = "http" \o n]
    ELSE [scheme |-> "", name |-> s]

\* JSON.parse(JSON.stringify(json)) read as a configuration: the members
\* toJSON does not list (_extended, outerHost, hlx5) are absent, byocdn is
\* not read by initStore
ParsedJSON(json) ==
    [EmptyConfig EXCEPT
        !.owner = json.owner,
        !.repo = json.repo,
        !.ref = json.ref,
        !.mountpoint = json.mountpoint,
        !.project = json.project,
        !.previewHost = json.previewHost,
        !.liveHost = json.liveHost,
        !.host = ParseUrlString(json.host),
        !.devMode = json.devMode,
        !.devOrigin = ParseUrlString(json.devOrigin),
        !.specialViews = json.specialViews,
        !.adminVersion = json.adminVersion]

\* a production host given as the URL https://httpbin.org
CfgHttpHostUrl == [EmptyConfig EXCEPT !.host = HostUrl("httpbin.org")]

\* a development origin other than the default, without a project
CfgDevOrigin == [EmptyConfig EXCEPT !.devOrigin = HostUrl("localhost:8080")]

RoundTripConfigs ==
    {EmptyConfig, CfgProject, CfgNoRef, CfgMounted, CfgRef, CfgExtended,
     CfgDevMode, CfgHost, CfgHostUrl, CfgHttpHostUrl, CfgDevOrigin}

RoundTripOutcomes ==
    {[kind |-> k, remote |-> EmptyConfig] : k \in {"non200", "rejected"}}
    \cup {[kind |-> "ok", remote |-> r] : r \in {EmptyConfig, RemoteHosts, RemoteMount}}

\* initStore(JSON.parse(JSON.stringify(siteStore.toJSON()))) on an
\* initialized store
InitStoreFromJSON ==
    /\ initialized
    /\ CallInitStore(ParsedJSON(toJSON(siteStore)), Some(siteStore))

NextRoundTrip ==
    \/ \E cfg \in RoundTripConfigs : InitStore(cfg)
    \/ \E outcome \in RoundTripOutcomes : InitStoreResumes(outcome)
    \/ InitStoreFromJSON

SpecRoundTrip == Init /\ [][NextRoundTrip]_vars

(***************************************************************************)
(* The Event Broadcaster called by the user interface: fireEvent(name,     *)
(* data) by a component, and the click on a plugin button of the action    *)
(* bar, at any time before, during and after loadContext and its status    *)
(* request.                                                                *)
(***************************************************************************)
\* EXTERNAL_EVENTS.PLUGIN_USED of constants.js
pluginused == EventName("", "pluginused")

\* the names the user interface fires
EventNames ==
    {statusfetched, pluginused, EventName("", "shown"), EventName("", "previewed"),
     EventName("custom:", "foo")}

\* an event payload with the fields fireEvent reads
EventData(sourceUrl, targetUrl) ==
    [kind |-> "obj", sourceUrl |-> sourceUrl, targetUrl |-> targetUrl]

\* { id: plugin.id }
PluginData(plugin) == [kind |-> "obj", id |-> plugin]

\* the data arguments of the model: omitted, null, an object without and one
\* with the fields of the sample
EventPayloads ==
    {NotPassed, JsNull, EventData(Undef, Undef),
     EventData("https://www.example.com/a", "/a")}

Plugins == {"preview", "publish"}

\* fireEvent(name, data) at the state of the step
fireEvent(name, data) ==
    /\ events' = events \o Dispatched(name, data, 0, sidekick)
    /\ samples' = samples \o Sampled(name, data, sidekick, status, location)
    /\ lastCall' = FireEventEnds(FireEventFails(name, data, sidekick, status, location))

\* a component calls fireEvent(name, data)
FireEvent(name, data) ==
    /\ Len(events) < MaxEvents
    /\ fireEvent(name, data)
    /\ UNCHANGED <<sidekick, location, siteStore, initialized, status, requests,
                   loader, settled, initCall, acted, verdict>>

\* ActionBar.onPluginButtonClick: fireEvent, then the action of the button
PluginButtonClick(plugin) ==
    /\ Len(events) < MaxEvents
    /\ fireEvent(pluginused, PluginData(plugin))
    /\ acted' = IF lastCall' = "returned" THEN acted \cup {plugin} ELSE acted
    /\ UNCHANGED <<sidekick, location, siteStore, initialized, status, requests,
                   loader, settled, initCall, verdict>>

NextEvents ==
    \/ \E cfg \in Configs, cur \in Locations : LoadContext(cfg, cur)
    \/ \E outcome \in OverrideOutcomes : ConfigResponse(outcome)
    \/ ContextLoaded
    \/ \E i \in 1..MaxRequests, resp \in Responses : Respond(i, resp)
    \/ \E i \in 1..MaxRequests : Parsed(i)
    \/ \E name \in EventNames, data \in EventPayloads : FireEvent(name, data)
    \/ \E plugin \in Plugins : PluginButtonClick(plugin)

SpecEvents == Init /\ [][NextEvents]_vars

(***************************************************************************)
(* The Location Classifier evaluated by the user interface (the conditions *)
(* of the plugins, once the store is initialized) for the configurations   *)
(* and locations below.                                                    *)
(***************************************************************************)
\* the paths of the document-management views, one of them below _layouts/15
DMPaths ==
    {<< <<"sites">>, <<"Forms">>, <<"AllItems", ".", "aspx">> >>,
     << <<"personal">>, <<"onedrive", ".", "aspx">> >>,
     << <<"personal">>, <<"_layouts">>, <<"15">>, <<"onedrive", ".", "aspx">> >>}

\* the last part of the id parameter: sub, .hidden, doc.docx, a.b.c,
\* .config.json and the empty part after a trailing slash
Basenames ==
    {<<"sub">>, <<".", "hidden">>, <<"doc", ".", "docx">>,
     <<"a", ".", "b", ".", "c">>, <<".", "config", ".", "json">>, <<>>}

DMLocations ==
    {Url(SharePointLabels, path, Some(<< <<"sites">>, base >>), sourcedoc) :
        path \in DMPaths, base \in Basenames, sourcedoc \in BOOLEAN}
    \cup {Url(SharePointLabels, path, None, FALSE) : path \in DMPaths}

\* project, development, production and other hosts
HostLocations ==
    {Url(labels, <<>>, None, FALSE) :
        labels \in {<<"main--repo--owner", "hlx", "page">>,
                    <<"main--repo--owner", "hlx", "live">>,
                    <<"preview", "example", "com">>,
                    <<"www", "example", "com">>,
                    <<"localhost:3000">>,
                    <<"docs", "google", "com">>,
                    <<"drive", "google", "com">>,
                    <<"www", "adobe", "com">>,
                    <<>>}}

ClassLocations == DMLocations \cup HostLocations \cup {LocEditor, LocFolder}

CfgCustomHosts ==
    [CfgProject EXCEPT !.previewHost = "preview.example.com",
                       !.host = HostName("www.example.com")]

\* a configuration without a project that names hosts all the same
CfgNoProject ==
    [EmptyConfig EXCEPT !.repo = "repo", !.previewHost = "preview.example.com",
                        !.host = HostName("www.example.com")]

ClassConfigs == {EmptyConfig, CfgProject, CfgMounted, CfgCustomHosts, CfgNoProject}

\* the predicates a condition can call, evaluated on the current state
Classify ==
    /\ initialized
    /\ location # None
    /\ verdict' = Some([isAdmin |-> isAdmin(siteStore, location[1]),
                        isEditor |-> isEditor(siteStore, location[1]),
                        isDev |-> isDev(siteStore, location[1]),
                        isInner |-> isInner(siteStore, location[1]),
                        isOuter |-> isOuter(siteStore, location[1]),
                        isProd |-> isProd(siteStore, location[1]),
                        isProject |-> isProject(siteStore, location[1])])
    /\ UNCHANGED <<sidekick, location, siteStore, initialized, status, requests,
                   events, samples, loader, lastCall, settled, initCall, acted>>

NextClassify ==
    \/ \E cfg \in ClassConfigs, cur \in ClassLocations : LoadContext(cfg, cur)
    \/ \E outcome \in OverrideOutcomes : ConfigResponse(outcome)
    \/ Classify

SpecClassify == Init /\ [][NextClassify]_vars

(***************************************************************************)
(* One activation with every operation that reads the SiteStore: the       *)
(* context load, fetchStatus and its promise chains, fireEvent and the     *)
(* Location Classifier, on a project with a content source.  The context  *)
(* load calls fetchStatus(), the user interface fetchStatus(true).         *)
(***************************************************************************)
FrameConfigs == {CfgMounted}

FrameLocations == {LocEditor}

\* one response of each outcome: a rejected request, an error code, the
\* 401, a body that does not parse, a status object and the null payload
FrameResponses ==
    {[kind |-> "rejected", code |-> 0, body |-> None]}
    \cup {[kind |-> "http", code |-> c, body |-> None] : c \in {200, 401, 404}}
    \cup {[kind |-> "http", code |-> 200, body |-> Some(p)] : p \in {Obj("/"), JsNull}}

\* fireEvent with the data omitted, and a user event with data
FrameEvents ==
    {[name |-> EventName("", "shown"), data |-> NotPassed],
     [name |-> EventName("", "shown"), data |-> EventData(Undef, Undef)]}

NextFrame ==
    \/ \E cfg \in FrameConfigs, cur \in FrameLocations : LoadContext(cfg, cur)
    \/ \E outcome \in OverrideOutcomes : ConfigResponse(outcome)
    \/ ContextLoaded
    \/ \E cur \in FrameLocations : FetchStatus(TRUE, cur)
    \/ \E i \in 1..MaxRequests, resp \in FrameResponses : Respond(i, resp)
    \/ \E i \in 1..MaxRequests : Parsed(i)
    \/ \E e \in FrameEvents : FireEvent(e.name, e.data)
    \/ Classify

SpecFrame == Init /\ [][NextFrame]_vars

(***************************************************************************)
(* Properties of the Status Fetcher.                                       *)
(***************************************************************************)
Ended(i) == requests[i].pc = "done"

\* the statusfetched events dispatched for request i
StatusEvents(i) ==
    {k \in 1..Len(events) : events[k].name = "statusfetched" /\ events[k].req = i}

\* a step that is a call of fetchStatus(refreshLocation), from the user
\* interface or from loadContext
CallsFetchStatus(refreshLocation) ==
    \/ \E cur \in Locations : FetchStatus(refreshLocation, cur)
    \/ (~refreshLocation /\ ContextLoaded)

\* C1: a status request that completes with HTTP 200 and a parseable JSON
\* body has exactly one statusfetched event, whose detail.data is the parsed
\* payload.
C1_StatusFetchedOncePerSuccess ==
    \A i \in 1..Len(requests) :
        (Ended(i) /\ requests[i].code = 200 /\ requests[i].body # None)
        => /\ Cardinality(StatusEvents(i)) = 1
           /\ \A k \in StatusEvents(i) : events[k].data = requests[i].body[1]

\* C2 as claimed: in every reachable state at most one status request is in
\* flight.
C2_AtMostOneInFlight == Cardinality(InFlight) <= 1

\* whether a call of fetchStatus(refreshLocation) that finds the browser at
\* cur reaches the fetch of line 636
ReachesFetch(refreshLocation, cur) ==
    /\ ~MissingProject(siteStore)
    /\ ~FetchStatusThrows(status, RefreshedLocation(refreshLocation, cur, location),
                          refreshLocation)

\* C2 as amended: fetchStatus does not deduplicate.  Every call that reaches
\* the fetch issues one new request, whatever requests are in flight, and
\* leaves the requests in flight as they are.
C2_EveryCallIssuesARequest ==
    [][\A refreshLocation \in BOOLEAN, cur \in Locations :
          (FetchStatus(refreshLocation, cur) /\ ReachesFetch(refreshLocation, cur))
          => /\ Len(requests') = Len(requests) + 1
             /\ Last(requests').pc = "sent"
             /\ SubSeq(requests', 1, Len(requests)) = requests]_vars

\* C2 witness: a second request was issued while the first was in flight
C2_TwoInFlight == Cardinality(InFlight) = 2

\* whether the chain of request i ended by applying a parsed body
Applied(i) == Ended(i) /\ requests[i].outcome \in {"event", "silent"}

\* C3: no response is discarded.  Once every request has completed, the
\* status is the one written by the response that arrived last, whichever
\* request it belongs to.
C3_LastArrivedResponseWins ==
    (InFlight = {} /\ settled # 0 /\ Applied(settled))
    => status = requests[settled].body[1]

\* C3 witness: two requests overlapped, the response of the first arrived
\* after that of the second, and the status is the first one's payload
C3_StaleResponseOverwrote ==
    /\ Len(requests) = 2
    /\ Applied(1) /\ Applied(2)
    /\ settled = 1
    /\ requests[1].body # requests[2].body
    /\ status = requests[1].body[1]

\* whether request i completed as a failure: a rejected request, a response
\* that is not 2xx and not 401, or a 2xx response whose body does not parse
IsErrorCode(code) == ~Ok(code) /\ code # 401

Failed(i) ==
    /\ Ended(i)
    /\ \/ requests[i].kind = "rejected"
       \/ (requests[i].kind = "http" /\ IsErrorCode(requests[i].code))
       \/ (requests[i].kind = "http" /\ Ok(requests[i].code) /\ requests[i].body = None)

\* the error keys section 4.4 of the specification maps a failure to
SpecifiedKeys(i) ==
    IF requests[i].kind = "rejected" THEN {FetchFailedMessage}
    ELSE IF Ok(requests[i].code) THEN {"error_status_invalid"}
    ELSE IF requests[i].code = 404
    THEN {"error_status_404_document", "error_status_404_content"}
    ELSE {"error_status_" \o ToString(requests[i].code)}

\* C4 as claimed: no fetchStatus call raises to its caller, and every failed
\* status request sets status.error to the mapped error key and dispatches
\* no statusfetched event.
C4_FailuresOnlySetError ==
    /\ lastCall # "threw"
    /\ \A i \in 1..Len(requests) :
          Failed(i) => /\ requests[i].recorded \in SpecifiedKeys(i)
                       /\ StatusEvents(i) = {}

\* C5: for a response that is not 2xx and not 401 the error key is
\* error_status_404_document (editor location) or error_status_404_content
\* (any other location) for 404 and error_status_<code> for any other code,
\* and it is the key status.error holds once the response is handled.
C5_ErrorKeyOfResponse ==
    [][\A i \in 1..MaxRequests, resp \in Responses :
          (Respond(i, resp) /\ resp.kind = "http" /\ IsErrorCode(resp.code))
          => LET key == CASE resp.code = 404 /\ isEditor(siteStore, location[1])
                               -> "error_status_404_document"
                          [] resp.code = 404 /\ ~isEditor(siteStore, location[1])
                               -> "error_status_404_content"
                          [] OTHER -> "error_status_" \o ToString(resp.code)
             IN /\ requests'[i].message = key
                /\ (status'.kind = "obj" => status'.error = key)]_vars

\* C5 witness: a 404 on an editor location, a 404 on a content location and
\* a 500 have each recorded their key
C5_KeysRecorded ==
    \E i, j \in 1..Len(requests) :
        /\ requests[i].code = 404 /\ requests[j].code \in {404, 500}
        /\ requests[i].recorded = "error_status_404_document"
        /\ requests[j].recorded \in {"error_status_404_content", "error_status_500"}
        /\ status.error = requests[settled].recorded

\* C6 as claimed: a 2xx response whose body fails to parse as JSON sets
\* status.error to error_status_invalid.
C6_ParseFailureIsInvalid ==
    \A i \in 1..Len(requests) :
        (Ended(i) /\ requests[i].kind = "http" /\ Ok(requests[i].code)
                  /\ requests[i].body = None)
        => requests[i].recorded = "error_status_invalid"

\* the object { status: 401 }
Status401 ==
    [kind |-> "obj", webPath |-> Undef, apiUrl |-> None, error |-> Undef,
     status |-> Some(401), num |-> 0]

\* C7: a 401 response is a payload, not an error.  Handling it makes the
\* status the object { status: 401 }, sets no status.error and dispatches
\* one statusfetched event carrying { status: 401 }.
C7_UnauthorizedIsPayload ==
    [][\A i \in 1..MaxRequests, resp \in Responses :
          (Respond(i, resp) /\ resp.kind = "http" /\ resp.code = 401)
          => /\ status' = Status401
             /\ status'.error = Undef
             /\ events' = Append(events, [name |-> "statusfetched",
                                          data |-> Status401, req |-> i])]_vars

\* C7 witness: a 401 response was handled and its event dispatched
C7_UnauthorizedHandled ==
    \E i \in 1..Len(requests) :
        /\ Ended(i) /\ requests[i].code = 401
        /\ \E k \in StatusEvents(i) : events[k].data = Status401
        /\ settled = i /\ status = Status401

\* C8 as claimed: the status endpoint URL is computed by the first call and
\* after that only by calls with refreshLocation true, whatever responses
\* have been applied in between.
C8_UrlComputedOncePerSession ==
    \A i \in 2..Len(requests) :
        ~requests[i].refreshLocation => ~requests[i].computed

\* C8 as amended: a call computes the URL exactly when refreshLocation is
\* true or the status holds no apiUrl, which is so on the first call and
\* again after every response whose payload has replaced the status;
\* otherwise the request goes to the apiUrl the status holds.
C8_UrlComputedWhenNotCached ==
    [][\A refreshLocation \in BOOLEAN :
          (CallsFetchStatus(refreshLocation) /\ Len(requests') > Len(requests))
          => LET request == Last(requests')
             IN /\ request.refreshLocation = refreshLocation
                /\ request.computed <=> (refreshLocation \/ status.apiUrl = None)
                /\ request.url = IF request.computed
                                 THEN ApiUrl(siteStore, location'[1])
                                 ELSE status.apiUrl[1]
                /\ status'.apiUrl = Some(request.url)]_vars

\* C8 witness: after a response replaced the status, a call with
\* refreshLocation false computed the URL again
C8_ComputedAgainAfterResponse ==
    /\ Len(requests) = 2
    /\ Applied(1)
    /\ ~requests[2].refreshLocation
    /\ requests[2].computed

\* C9: a successful fetch overwrites the status wholesale.  Right after the
\* body of a 200 response is applied the status is exactly the parsed
\* payload: no field of the earlier status survives, its error key included.
C9_StatusReplacedWholesale ==
    [][\A i \in 1..MaxRequests :
          (Parsed(i) /\ requests[i].code = 200 /\ requests[i].body # None)
          => /\ status' = requests[i].body[1]
             /\ status'.error = Undef
             /\ status'.apiUrl = None]_vars

\* C9 witness: a request failed and left its error key, then a 200 response
\* was applied and the key is gone
C9_ErrorKeyOverwritten ==
    \E i, j \in 1..Len(requests) :
        /\ Ended(j) /\ requests[j].outcome = "error"
        /\ Ended(i) /\ requests[i].code = 200 /\ requests[i].outcome = "event"
        /\ settled = i
        /\ status = requests[i].body[1]
        /\ status.error = Undef

\* owner, repo and ref are not all present
NotAllPresent(site) ==
    ~(Truthy(site.owner) /\ Truthy(site.repo) /\ Truthy(site.ref))

\* C10 as claimed: without owner, repo and ref a fetchStatus call issues no
\* request, dispatches no event and leaves status and location unchanged,
\* for either value of refreshLocation.
C10_GuardedCallChangesNothing ==
    [][\A refreshLocation \in BOOLEAN, cur \in Locations :
          (FetchStatus(refreshLocation, cur) /\ NotAllPresent(siteStore))
          => UNCHANGED <<requests, events, status, location>>]_vars

\* C10 as amended: without owner, repo and ref a fetchStatus call issues no
\* request, dispatches no event and leaves the status (apiUrl and error
\* included) unchanged; it leaves the location unchanged when
\* refreshLocation is false and sets it to the browser's current location
\* when refreshLocation is true.
C10_GuardedCallOnlyRefreshesLocation ==
    [][\A refreshLocation \in BOOLEAN, cur \in Locations :
          (FetchStatus(refreshLocation, cur) /\ NotAllPresent(siteStore))
          => /\ UNCHANGED <<requests, events, samples, status, siteStore>>
             /\ lastCall' = "returned"
             /\ location' = IF refreshLocation THEN Some(cur) ELSE location]_vars

\* C10 witness: a store without owner, repo or ref whose location was set
\* although nothing was requested; before loadContext only a guarded
\* fetchStatus(true) sets it
C10_GuardedCallRefreshedLocation ==
    /\ NotAllPresent(siteStore)
    /\ loader.pc = "new"
    /\ location # None
    /\ lastCall = "returned"
    /\ requests = <<>> /\ events = <<>> /\ status = EmptyStatus

(***************************************************************************)
(* Properties of loadContext.                                              *)
(***************************************************************************)
\* the positions in events of the events of the given name
EventsNamed(name) == {k \in 1..Len(events) : events[k].name = name}

\* C11: the steps of loadContext are ordered.  contextloaded is dispatched
\* only once the override fetch has ended and initialized is true; the
\* status request of the load is issued in the step that dispatches
\* contextloaded, after it, and loadContext returns with that request
\* pending; so the statusfetched event of the load's request comes after
\* contextloaded.
C11_LoadContextOrdered ==
    /\ [](/\ (EventsNamed("contextloaded") # {}) => (initialized /\ loader.pc = "idle")
          /\ loader.pc # "idle" => loader.req = 0
          /\ \A k \in StatusEvents(loader.req) :
                \E j \in EventsNamed("contextloaded") : j < k)
    /\ [][ContextLoaded
           => /\ initialized
              /\ events' = Append(events, [name |-> "contextloaded",
                                           data |-> [kind |-> "obj",
                                                     config |-> toJSON(siteStore),
                                                     location |-> location],
                                           req |-> 0])
              /\ loader'.pc = "idle"
              /\ loader'.req # 0 => /\ loader'.req = Len(requests')
                                    /\ requests'[loader'.req].pc = "sent"
                                    /\ \A k \in 1..Len(events') :
                                          events'[k].req # loader'.req]_vars

\* C11 witness: a load whose override fetch was awaited has dispatched
\* contextloaded, issued its status request and returned, and the
\* statusfetched event of that request has followed
C11_StatusFetchedAfterContextLoaded ==
    /\ loader.pc = "idle"
    /\ WantsOverride(loader.cfg)
    /\ loader.req # 0
    /\ \E j \in EventsNamed("contextloaded"), k \in StatusEvents(loader.req) : j < k

(***************************************************************************)
(* Properties of the Config Resolver and the Host Deriver                  *)
(* (specification SpecInit).                                               *)
(***************************************************************************)
\* C12 as claimed: initStore never throws to its caller.  For every raw
\* configuration and every outcome of the override fetch it returns with
\* initialized true, and when the fetch fails or answers non-200 the store
\* holds what the caller's configuration alone gives.
C12_InitStoreNeverThrows ==
    [][/\ \A cfg \in InitConfigs :
             (InitStore(cfg) /\ ~WantsOverride(cfg))
             => /\ initCall'.pc = "returned"
                /\ initialized'
                /\ siteStore' = AssignFields(cfg, cfg)
       /\ \A outcome \in InitOutcomes :
             InitStoreResumes(outcome)
             => /\ initCall'.pc = "returned"
                /\ initialized'
                /\ outcome.kind # "ok"
                   => siteStore' = AssignFields(initCall.cfg, initCall.cfg)]_vars

\* the fields of the store that hold a field of the configuration as it is
CopiedFields ==
    {"mountpoint", "previewHost", "liveHost", "project", "specialViews", "hlx5"}

\* owner, repo, ref, devMode and adminVersion of the store are the caller's
PinnedToCaller(site, cfg) ==
    /\ site.owner = cfg.owner
    /\ site.repo = cfg.repo
    /\ site.ref = (IF cfg.ref = Undef THEN "main" ELSE cfg.ref)
    /\ site.devMode = cfg.devMode
    /\ site.adminVersion = cfg.adminVersion

\* C13 as claimed: after an override fetch that answered 200 the store has
\* the caller's owner, repo, ref, devMode and adminVersion, and for every
\* other field the remote document supplies (mountpoint, previewHost,
\* liveHost, project, specialViews, the domain flag, host) the value of the
\* remote document.
C13_RemoteFieldsWin ==
    [][\A outcome \in InitOutcomes :
          (InitStoreResumes(outcome) /\ outcome.kind = "ok"
                                     /\ initCall'.pc = "returned")
          => /\ PinnedToCaller(siteStore', initCall.cfg)
             /\ \A f \in CopiedFields :
                   ~Absent(f, outcome.remote[f]) => siteStore'[f] = outcome.remote[f]
             /\ outcome.remote.host # NoUrlString
                => siteStore'.host = outcome.remote.host.name]_vars

\* C14 as claimed: initStore issues an override request only if owner and
\* repo are present and the configuration is not extended, and never once
\* the override fetch of an earlier initStore on the same store has
\* succeeded.
C14_OverrideMergedOnce ==
    [][\A cfg \in InitConfigs :
          (InitStore(cfg) /\ initCall'.pc = "fetching")
          => /\ Truthy(cfg.owner) /\ Truthy(cfg.repo)
             /\ cfg.extended = None
             /\ ~initCall.merged]_vars

\* {ref}--{repo}--{owner}.{domain}.{tld} for the project of the store
StdHostName(site, tld) ==
    site.ref \o "--" \o site.repo \o "--" \o site.owner \o "."
        \o (IF site.hlx5 = Some(TRUE) THEN "aem" ELSE "hlx") \o "." \o tld

\* the hosts of the store are the ones the Host Deriver defines, for
\* legacyOuterHost the legacy outer-host alias of the configuration in force
HostsAsDerived(site, legacyOuterHost) ==
    /\ IF Truthy(site.owner) /\ Truthy(site.repo)
       THEN /\ site.stdInnerHost = StdHostName(site, "page")
            /\ site.stdOuterHost = StdHostName(site, "live")
       ELSE /\ site.stdInnerHost = Null
            /\ site.stdOuterHost = Null
    /\ site.innerHost = IF Truthy(site.previewHost) THEN site.previewHost
                        ELSE site.stdInnerHost
    /\ site.outerHost = IF Truthy(site.liveHost) THEN site.liveHost
                        ELSE IF Truthy(legacyOuterHost) THEN legacyOuterHost
                        ELSE site.stdOuterHost

\* C18: after every initStore that returns, stdInnerHost and stdOuterHost
\* are {ref}--{repo}--{owner}.{domain}.page and .live (domain aem with the
\* flag, else hlx) when owner and repo are both present and null otherwise,
\* innerHost is previewHost when that is set (a non-empty string) and
\* stdInnerHost otherwise, and outerHost is liveHost if set, else the legacy
\* outer-host alias if set, else stdOuterHost.
C18_HostsAsDerived ==
    [][/\ \A cfg \in InitConfigs :
             (InitStore(cfg) /\ initCall'.pc = "returned")
             => HostsAsDerived(siteStore', cfg.outerHost)
       /\ \A outcome \in InitOutcomes :
             (InitStoreResumes(outcome) /\ initCall'.pc = "returned")
             => HostsAsDerived(siteStore',
                               IF outcome.kind = "ok"
                                  /\ outcome.remote.outerHost # Undef
                               THEN outcome.remote.outerHost
                               ELSE initCall.cfg.outerHost)]_vars

\* C18 witness: initStore has returned on a store whose standard hosts are
\* those of the aem domain, whose innerHost is the previewHost and whose
\* outerHost is the legacy alias of the override document, no liveHost
\* being set
C18_CustomHostsDerived ==
    /\ initCall.pc = "returned" /\ initCall.merged
    /\ initialized
    /\ siteStore.stdInnerHost = "main--repo--owner.aem.page"
    /\ siteStore.stdOuterHost = "main--repo--owner.aem.live"
    /\ siteStore.innerHost = "preview.example.com"
    /\ siteStore.liveHost = Undef
    /\ siteStore.outerHost = "legacy.remote.com"

(***************************************************************************)
(* Properties of the Event Broadcaster (specification SpecEvents).         *)
(***************************************************************************)
\* the snapshot section 4.5 describes: the serialized configuration, the
\* fields of the location and the status
Snapshot(site, loc, st) ==
    [kind |-> "obj",
     config |-> toJSON(site),
     location |-> [host |-> Host(loc), pathname |-> Pathname(loc),
                   search |-> Search(loc), href |-> Href(loc)],
     status |-> st]

\* C15 as claimed: fireEvent(name) with data omitted, on a store whose
\* sidekick and location are set, dispatches one event whose detail.data is
\* the snapshot of the current config, location and status.
C15_OmittedDataIsSnapshot ==
    [][\A name \in EventNames :
          (FireEvent(name, NotPassed) /\ sidekick /\ location # None)
          => events' = Append(events,
                              [name |-> NameText(name),
                               data |-> Snapshot(siteStore, location[1], status),
                               req |-> 0])]_vars

\* C16: fireEvent never raises to its caller, whatever the name, the data
\* and the state of the store (sidekick and location set or not, status an
\* object or null): the call returns, and the action of a plugin button
\* runs after the plugin-used event was fired.
C16_FireEventNeverRaises ==
    [][/\ \A name \in EventNames, data \in EventPayloads :
             FireEvent(name, data) => lastCall' = "returned"
       /\ \A plugin \in Plugins :
             PluginButtonClick(plugin)
             => (lastCall' = "returned" /\ plugin \in acted')]_vars

\* C16 witness: before loadContext has set sidekick and location a plugin
\* button was clicked; firing the event failed, nothing was dispatched and
\* the action of the button has run
C16_ActionRanAfterFailedEvent ==
    /\ ~sidekick /\ location = None
    /\ FireEventFails(pluginused, PluginData("preview"), sidekick, status, location)
    /\ events = <<>>
    /\ lastCall = "returned"
    /\ "preview" \in acted

\* C17 as claimed: a fireEvent call forwards a telemetry sample tagged
\* sidekick:{name} if and only if it dispatched its event and the name is in
\* the allow-list of user events or starts with custom:; loadContext and the
\* status requests forward none.
C17_SampleIffUserEventDispatched ==
    [][/\ \A name \in EventNames, data \in EventPayloads :
             FireEvent(name, data)
             => IF /\ Len(events') = Len(events) + 1
                   /\ (name.prefix = "custom:" \/ NameText(name) \in userEvents)
                THEN /\ Len(samples') = Len(samples) + 1
                     /\ Last(samples').tag = "sidekick:" \o NameText(name)
                ELSE samples' = samples
       /\ \/ \E cfg \in Configs, cur \in Locations : LoadContext(cfg, cur)
          \/ \E outcome \in OverrideOutcomes : ConfigResponse(outcome)
          \/ ContextLoaded
          \/ \E i \in 1..MaxRequests, resp \in Responses : Respond(i, resp)
          \/ \E i \in 1..MaxRequests : Parsed(i)
          \/ \E plugin \in Plugins : PluginButtonClick(plugin)
          => samples' = samples]_vars

(***************************************************************************)
(* Properties of the Location Classifier (specification SpecClassify).     *)
(***************************************************************************)
\* a SharePoint document-management location that carries an id parameter
IsDMWithId(url) ==
    /\ EndsWith(url.labels, <<"sharepoint", "com">>)
    /\ \/ EndsWith(url.segs, << <<"Forms">>, <<"AllItems", ".", "aspx">> >>)
       \/ EndsWith(url.segs, << <<"onedrive", ".", "aspx">> >>)
    /\ url.id # None

\* the dot index of the basename of the id parameter: the position of its
\* first dot, the one the values -1 and 0 of the folder rule are about
DotIndex(url) == IndexOf(Last(url.id[1]), ".")

\* C19 as claimed: for a SharePoint document-management location with an id
\* parameter the dot index of the basename of id decides the class: with
\* dot index -1 or 0 the location is a folder (isAdmin true, isEditor false),
\* with a dot index above 0 it is a viewer document (isEditor true).
C19_DotIndexDecides ==
    (verdict # None /\ IsDMWithId(location[1]))
    => /\ DotIndex(location[1]) \in {-1, 0}
          => (verdict[1].isAdmin /\ ~verdict[1].isEditor)
       /\ DotIndex(location[1]) > 0 => verdict[1].isEditor

\* C20: isProject() is true exactly when owner and repo are both set and
\* the host of the location is the development host (or empty), an inner
\* host, an outer host or the production host of the store; without owner
\* or repo it is false at every location.
C20_ProjectNeedsOwnerAndRepo ==
    verdict # None
    => LET host == Host(location[1])
           project == /\ Truthy(siteStore.owner)
                      /\ Truthy(siteStore.repo)
                      /\ \/ verdict[1].isDev
                         \/ verdict[1].isInner
                         \/ verdict[1].isOuter
                         \/ verdict[1].isProd
       IN /\ verdict[1].isProject <=> project
          /\ verdict[1].isDev <=> host \in {"", siteStore.devUrl}
          /\ verdict[1].isProd <=> host = siteStore.host
          /\ (~Truthy(siteStore.owner) \/ ~Truthy(siteStore.repo))
             => ~verdict[1].isProject

\* C20 witness: a store without owner whose location is classified as its
\* preview host and its production host, and not as a project location
C20_HostMatchesWithoutProject ==
    /\ verdict # None
    /\ ~Truthy(siteStore.owner)
    /\ verdict[1].isInner /\ ~verdict[1].isProject
    /\ \E cfg \in ClassConfigs :
          /\ loader.cfg = cfg /\ Truthy(cfg.repo)
          /\ Host(location[1]) = cfg.previewHost

(***************************************************************************)
(* C21.  For every initialized SiteStore, serializing it with toJSON and   *)
(* initializing a store from the parsed result yields a store equal on     *)
(* owner, repo, ref, mountpoint, project, previewHost, liveHost, host,     *)
(* devMode, devOrigin, specialViews and adminVersion.  The devOrigin of    *)
(* the SiteConfig is the development origin the store resolved (devUrl,    *)
(* by default http://localhost:3000): the member this.devOrigin toJSON     *)
(* reads is never assigned.                                                *)
(***************************************************************************)
NonTransient(site) ==
    [owner |-> site.owner, repo |-> site.repo, ref |-> site.ref,
     mountpoint |-> site.mountpoint, project |-> site.project,
     previewHost |-> site.previewHost, liveHost |-> site.liveHost,
     host |-> site.host, devMode |-> site.devMode, devOrigin |-> site.devUrl,
     specialViews |-> site.specialViews, adminVersion |-> site.adminVersion]

C21_RoundTripPreservesFields ==
    [][((InitStoreFromJSON \/ \E outcome \in RoundTripOutcomes : InitStoreResumes(outcome))
        /\ initCall'.origin # None
        /\ initCall'.pc # "fetching")
       => /\ initCall'.pc = "returned"
          /\ NonTransient(siteStore') = NonTransient(initCall'.origin[1])]_vars

(***************************************************************************)
(* C22.  The SiteStore is written by initialization only: a call of        *)
(* fetchStatus, the arrival of a response (whatever its outcome) and the   *)
(* end of its promise chain, a call of fireEvent and an evaluation of the  *)
(* classifier predicates leave every field of the SiteStore as it was.     *)
(***************************************************************************)
ReadsSiteStore ==
    \/ ContextLoaded
    \/ \E cur \in FrameLocations : FetchStatus(TRUE, cur)
    \/ \E i \in 1..MaxRequests, resp \in FrameResponses : Respond(i, resp)
    \/ \E i \in 1..MaxRequests : Parsed(i)
    \/ \E e \in FrameEvents : FireEvent(e.name, e.data)
    \/ Classify

C22_OnlyInitStoreWritesSiteStore ==
    [][ReadsSiteStore => siteStore' = siteStore]_vars

\* C22 witness: on an initialized project store with its content source,
\* a status request failed, another one delivered a status, fireEvent
\* dispatched a user event, the predicates were evaluated, and the store
\* holds what initStore assigned
C22_StoreKeptThroughOperations ==
    /\ initialized
    /\ siteStore = AssignFields(loader.cfg, loader.cfg)
    /\ siteStore.owner = "owner" /\ siteStore.mountpoint # None
    /\ \E i, j \in 1..Len(requests) :
          /\ Ended(i) /\ requests[i].outcome = "error"
          /\ Ended(j) /\ requests[j].outcome = "event"
    /\ \E k \in 1..Len(events) : events[k].name = "shown"
    /\ verdict # None

(***************************************************************************)
(* C23.  Every status request whose response has arrived and whose chain   *)
(* has ended has exactly one observable outcome, whatever the response     *)
(* code and the payload: one statusfetched event was dispatched for it, or *)
(* status.error was set by it; never both, never neither.                  *)
(***************************************************************************)
ErrorSetBy(i) == requests[i].outcome = "error"

C23_ExactlyOneOutcome ==
    \A i \in 1..Len(requests) :
        Ended(i) => /\ Cardinality(StatusEvents(i)) <= 1
                    /\ (Cardinality(StatusEvents(i)) = 1) # ErrorSetBy(i)

(***************************************************************************)
(* C24.  The 404 error key recorded for a status request is the one of the *)
(* location its endpoint URL was computed for: error_status_404_document   *)
(* if that location is an editor location, error_status_404_content if it  *)
(* is not, even when a fetchStatus(true) call has refreshed the location   *)
(* to a differently classified one before the response arrived.            *)
(***************************************************************************)
\* the locations for which fetchStatus computes the endpoint URL of request i
ComputedFor(i) == {loc \in Locations : ApiUrl(siteStore, loc) = requests[i].url}

C24_KeyOfRequestLocation ==
    \A i \in 1..Len(requests) :
        (Ended(i) /\ requests[i].code = 404 /\ requests[i].outcome = "error")
        => \A loc \in ComputedFor(i) :
              requests[i].recorded = ErrorKey(404, isEditor(siteStore, loc))

(***************************************************************************)
(* C25.  isAdmin and isEditor are mutually exclusive: for every SiteStore  *)
(* (any mountpoint) and every location (any host, path and query), the     *)
(* two predicates are never both true.                                     *)
(***************************************************************************)
C25_AdminExcludesEditor ==
    verdict # None => ~(verdict[1].isAdmin /\ verdict[1].isEditor)

====
